---- MODULE Spec2Model ----
(***************************************************************************)
(* A model of optimize.py, the LLM context optimizer.                      *)
(*                                                                         *)
(* Text is a sequence of one-character strings, so that len(), split(),    *)
(* strip(), lower(), substring tests and the regular expressions of the    *)
(* source are computed character by character.  Priorities are floats with *)
(* one decimal in the source; here they are integers in tenths (5.0 is     *)
(* 50).  A Message is a record with the fields of the dataclass.           *)
(***************************************************************************)
EXTENDS Integers, Sequences, FiniteSets

VARIABLES
    pc,               \* position of the running entry point
    messages,         \* main: the list load_jsonl builds, then optimize_context scores in place
    original,         \* the argument of optimize_context as it was when the call began
    target_tokens,    \* optimize_context arguments
    preserve_recent,
    min_priority,
    recent,           \* optimize_context locals
    old,
    old_unique,
    old_filtered,
    greedy,           \* optimized_old when the loop of lines 190-195 ends
    optimized_old,    \* optimized_old at line 204
    result,
    output,           \* main: whether --output was given
    exit_code,        \* main: the process exit status, -1 while running
    stderr,           \* main: what was last written to the error stream
    data,             \* the keyword arguments a Message is constructed from
    msg,              \* the constructed Message (a sequence of zero or one)
    score,            \* what calculate_priority returned, -1 before the call
    dd_in,            \* deduplicate_messages: its argument
    dd_out            \* deduplicate_messages: its return value

vars == <<pc, messages, original, target_tokens, preserve_recent, min_priority,
          recent, old, old_unique, old_filtered, greedy, optimized_old, result,
          output, exit_code, stderr, data, msg, score, dd_in, dd_out>>

-----------------------------------------------------------------------------
(* Bounds of the model *)

\* main: at most this many lines are read from the input file
MaxMsgs == 4
\* --preserve-recent ranges over 0..MaxPreserve
MaxPreserve == 2
\* message construction and scoring: contents of at most this many characters
MaxContentLen == 4
\* deduplicate_messages: argument lists of at most this many messages
MaxDedupLen == 3
\* main: at most this many lines are read from a long input file
MaxLong == 24

-----------------------------------------------------------------------------
(* Characters and strings *)

UpperChars ==
    <<"A", "B", "C", "D", "E", "F", "G", "H", "I", "J", "K", "L", "M",
      "N", "O", "P", "Q", "R", "S", "T", "U", "V", "W", "X", "Y", "Z">>

LowerChars ==
    <<"a", "b", "c", "d", "e", "f", "g", "h", "i", "j", "k", "l", "m",
      "n", "o", "p", "q", "r", "s", "t", "u", "v", "w", "x", "y", "z">>

DigitChars == {"0", "1", "2", "3", "4", "5", "6", "7", "8", "9"}

\* the characters str.split() and str.strip() treat as whitespace
Whitespace == {" ", "\t", "\n", "\r"}

Range(s) == {s[i] : i \in DOMAIN s}

IsSpace(c) == c \in Whitespace

\* the characters matched by \w
WordChars == Range(UpperChars) \cup Range(LowerChars) \cup DigitChars \cup {"_"}

IsWordChar(c) == c \in WordChars

\* the lowercase letter of each uppercase letter
LowerOf ==
    [c \in Range(UpperChars) |->
        LowerChars[CHOOSE i \in DOMAIN UpperChars : UpperChars[i] = c]]

LowerChar(c) == IF c \in DOMAIN LowerOf THEN LowerOf[c] ELSE c

\* str.lower()
Lower(s) == [i \in 1..Len(s) |-> LowerChar(s[i])]

\* str.strip()
Strip(s) ==
    LET keep == {i \in 1..Len(s) : ~IsSpace(s[i])}
    IN  IF keep = {} THEN <<>>
        ELSE LET first == CHOOSE i \in keep : \A j \in keep : i <= j
                 last  == CHOOSE i \in keep : \A j \in keep : j <= i
             IN  SubSeq(s, first, last)

\* sub in s
Contains(s, sub) ==
    \E i \in 0..(Len(s) - Len(sub)) : \A j \in 1..Len(sub) : s[i + j] = sub[j]

\* any(word in s for word in words)
AnyIn(words, s) == \E w \in words : Contains(s, w)

\* s.count(c)
CountChar(s, c) == Cardinality({i \in 1..Len(s) : s[i] = c})

\* len(s.split()): the number of maximal runs of non-whitespace
WordCount(s) ==
    Cardinality({i \in 1..Len(s) : ~IsSpace(s[i]) /\ (i = 1 \/ IsSpace(s[i - 1]))})

\* set(re.findall(r'\w+', s)): the maximal runs of word characters
WordSet(s) ==
    LET starts == {i \in 1..Len(s) :
                      IsWordChar(s[i]) /\ (i = 1 \/ ~IsWordChar(s[i - 1]))}
        EndOf(i) == CHOOSE j \in i..Len(s) :
                      /\ \A k \in i..j : IsWordChar(s[k])
                      /\ (j = Len(s) \/ ~IsWordChar(s[j + 1]))
    IN  {SubSeq(s, i, EndOf(i)) : i \in starts}

Min(a, b) == IF a <= b THEN a ELSE b

Max(a, b) == IF a >= b THEN a ELSE b

\* sep.join(parts)
RECURSIVE Join(_, _)
Join(parts, sep) ==
    IF parts = <<>> THEN <<>>
    ELSE IF Len(parts) = 1 THEN parts[1]
    ELSE parts[1] \o sep \o Join(Tail(parts), sep)

\* parts[:n]
Take(s, n) == SubSeq(s, 1, Min(n, Len(s)))

RECURSIVE SumTokens(_)
SumTokens(ms) ==
    IF ms = <<>> THEN 0 ELSE ms[1].tokens + SumTokens(Tail(ms))

-----------------------------------------------------------------------------
(* Inputs *)

Roles == {"user", "system"}

\* the lines the input file may hold: role, content and the tokens field
\* (0 when the line has none)
InputLines ==
    { [role |-> "user",   content |-> <<"o", "k">>,                               tokens |-> 0],
      [role |-> "user",   content |-> <<"F", "i", "x", " ", "b", "u", "g">>,      tokens |-> 0],
      [role |-> "user",   content |-> <<"b", "u", "g", " ", "f", "i", "x", "?">>, tokens |-> 0],
      [role |-> "user",   content |-> <<"d", "a", "t", "a", " ", "4", "2">>,      tokens |-> 30],
      [role |-> "system", content |-> <<"w", "i", "l", "l", " ", "d", "o">>,      tokens |-> 30],
      [role |-> "user",   content |-> <<"b", "u", "g", " ", "f", "i", "x">>,      tokens |-> 30] }

\* a long input file: its i-th line is a user message of one two-letter
\* word, a different word on every line, and so a different fingerprint
LongLetters == <<"a", "b", "c", "d", "e", "f">>

LongContent(i) ==
    << LongLetters[((i - 1) \div Len(LongLetters)) + 1],
       LongLetters[((i - 1) % Len(LongLetters)) + 1] >>

LongContents == {LongContent(i) : i \in 1..(Len(LongLetters) * Len(LongLetters))}

\* the tokens field of a line of a long input file
LongTokens == {1, 30}

\* --target, --min-priority (in tenths) and --preserve-recent
TargetChoices == {2, 30, 60}

MinPriorityChoices == {10, 50}

PreserveChoices == 0..MaxPreserve

\* contents for construction and scoring: every string over the alphabet
Alphabet == {"o", "k", "O", "n", " "}

Strings(n) == UNION {[1..k -> Alphabet] : k \in 0..n}

\* tokens a caller may supply to the constructor; 0 is also the default
SuppliedTokens == {0, 7}

\* deduplicate_messages: the contents and priorities of its argument's messages
DedupContents ==
    { <<"F", "i", "x", " ", "b", "u", "g">>,
      <<"b", "u", "g", " ", "f", "i", "x">>,
      <<"o", "k">> }

DedupPriorities == {10, 50, 90}

SeqsUpTo(S, n) == UNION {[1..k -> S] : k \in 0..n}

\* the contents of the lists of messages the model builds
KnownContents ==
    {d.content : d \in InputLines} \cup DedupContents \cup LongContents

-----------------------------------------------------------------------------
(* Message and estimate_tokens *)

\* estimate_tokens with a fault: the word term is dropped
estimate_tokens_chars_only(text) == Len(text) \div 4

\* len(text) // 4 + len(text.split()) // 2
estimate_tokens(text) == (Len(text) \div 4) + (WordCount(text) \div 2)

\* the dataclass constructor followed by __post_init__; metadata None is <<>>
Message(role, content, metadata, priority, tokens) ==
    [ role      |-> role,
      content   |-> content,
      timestamp |-> "None",
      metadata  |-> metadata,
      priority  |-> priority,
      tokens    |-> IF tokens = 0 THEN estimate_tokens(content) ELSE tokens ]

\* Message(**data) for a parsed line; absent priority and tokens take the defaults
MessageFromData(d) == Message(d.role, d.content, <<>>, 50, d.tokens)

-----------------------------------------------------------------------------
(* calculate_priority *)

HighWords ==
    { <<"d", "e", "c", "i", "d", "e">>,
      <<"i", "m", "p", "o", "r", "t", "a", "n", "t">>,
      <<"r", "e", "m", "e", "m", "b", "e", "r">>,
      <<"p", "r", "e", "f", "e", "r">>,
      <<"a", "l", "w", "a", "y", "s">>,
      <<"n", "e", "v", "e", "r">> }

DataWords ==
    { <<"d", "a", "t", "a">>,
      <<"f", "a", "c", "t">>,
      <<"r", "e", "s", "u", "l", "t">>,
      <<"c", "o", "n", "c", "l", "u", "s", "i", "o", "n">> }

ProblemWords ==
    { <<"e", "r", "r", "o", "r">>,
      <<"b", "u", "g">>,
      <<"f", "i", "x">>,
      <<"i", "s", "s", "u", "e">>,
      <<"p", "r", "o", "b", "l", "e", "m">> }

GreetingWords ==
    { <<"h", "e", "l", "l", "o">>,
      <<"h", "i", " ">>,
      <<"b", "y", "e">>,
      <<"t", "h", "a", "n", "k", "s">>,
      <<"t", "h", "a", "n", "k", " ", "y", "o", "u">> }

ShortAcks ==
    { <<"o", "k">>,
      <<"o", "k", "a", "y">>,
      <<"y", "e", "s">>,
      <<"n", "o">>,
      <<"s", "u", "r", "e">>,
      <<"g", "o", "t", " ", "i", "t">>,
      <<"u", "n", "d", "e", "r", "s", "t", "o", "o", "d">> }

\* re.search(r'\?$', msg.content.strip()): strip() leaves no trailing newline
\* for $ to match before, so the pattern matches iff the last character is ?
EndsWithQuestion(content) ==
    LET s == Strip(content) IN s # <<>> /\ s[Len(s)] = "?"

\* re.search(r'\d+', content)
HasDigit(content) == \E i \in 1..Len(content) : content[i] \in DigitChars

\* lines 69-70: the test is on msg.content.lower(), which is not stripped
AckAdjustment(m) == IF Lower(m.content) \in ShortAcks THEN -25 ELSE 0

calculate_priority(m) ==
    LET content == Lower(m.content)
        priority ==
            50
            + (IF AnyIn(HighWords, content) THEN 20 ELSE 0)
            + (IF EndsWithQuestion(m.content) THEN 15 ELSE 0)
            + (IF AnyIn(DataWords, content) THEN 15 ELSE 0)
            + (IF AnyIn(ProblemWords, content) THEN 10 ELSE 0)
            + (IF HasDigit(content) THEN 5 ELSE 0)
            + (IF AnyIn(GreetingWords, content) THEN -20 ELSE 0)
            + AckAdjustment(m)
            + (IF Len(content) < 20 THEN -10 ELSE 0)
            + (IF CountChar(content, "!") > 2 THEN -5 ELSE 0)
            + (IF m.role = "system" THEN 10 ELSE 0)
    IN  Max(10, Min(100, priority))

\* calculate_priority reads only role and content: its value on each role
\* and known content, evaluated once
PriorityMemo ==
    [r \in Roles |-> [c \in KnownContents |->
        calculate_priority([role |-> r, content |-> c])]]

Priority(m) ==
    IF m.role \in Roles /\ m.content \in KnownContents
    THEN PriorityMemo[m.role][m.content]
    ELSE calculate_priority(m)

-----------------------------------------------------------------------------
(* semantic_hash *)

\* The fingerprint is the MD5 digest of the sorted, space-joined set of
\* lowercased words.  Words hold no space, so the joined string determines
\* the set and the set determines the string; the digest is taken to be
\* collision-free on the texts of the model, and the fingerprint is
\* represented by the word set it is the digest of.
semantic_hash(text) == WordSet(Lower(text))

\* semantic_hash of each known content, evaluated once
HashMemo == [c \in KnownContents |-> semantic_hash(c)]

Fingerprint(text) ==
    IF text \in KnownContents THEN HashMemo[text] ELSE semantic_hash(text)

-----------------------------------------------------------------------------
(* deduplicate_messages *)

\* MaxByPriority with a fault: the last message of maximum priority
LastMaxByPriority(group) ==
    LET best == CHOOSE i \in DOMAIN group :
                  /\ \A j \in DOMAIN group : group[j].priority <= group[i].priority
                  /\ \A j \in DOMAIN group :
                        group[j].priority = group[i].priority => j <= i
    IN  group[best]

\* max(group, key=lambda m: m.priority): the first message of maximum priority
MaxByPriority(group) ==
    LET best == CHOOSE i \in DOMAIN group :
                  /\ \A j \in DOMAIN group : group[j].priority <= group[i].priority
                  /\ \A j \in DOMAIN group :
                        group[j].priority = group[i].priority => i <= j
    IN  group[best]

\* hash_groups[shash]: the messages of one fingerprint, in input order
GroupOf(ms, shash) ==
    LET Same(m) == Fingerprint(m.content) = shash
    IN  SelectSeq(ms, Same)

\* hash_groups.values() iterates in the order the keys were first inserted
RECURSIVE DedupFrom(_, _, _)
DedupFrom(ms, i, seen) ==
    IF i > Len(ms) THEN <<>>
    ELSE LET shash == Fingerprint(ms[i].content)
         IN  IF shash \in seen
             THEN DedupFrom(ms, i + 1, seen)
             ELSE <<MaxByPriority(GroupOf(ms, shash))>>
                    \o DedupFrom(ms, i + 1, seen \cup {shash})

deduplicate_messages(ms) == DedupFrom(ms, 1, {})

-----------------------------------------------------------------------------
(* summarize_messages *)

DecisionWords ==
    { <<"d", "e", "c", "i", "d", "e">>,
      <<"w", "i", "l", "l">>,
      <<"g", "o", "i", "n", "g", " ", "t", "o">> }

FactWords ==
    { <<"f", "a", "c", "t">>,
      <<"d", "a", "t", "a">>,
      <<"r", "e", "s", "u", "l", "t">> }

SummaryPrefix ==
    <<"[", "S", "U", "M", "M", "A", "R", "Y", "]", " ">>

DecisionsLabel ==
    <<"*", "*", "D", "e", "c", "i", "s", "i", "o", "n", "s", ":", "*", "*", " ">>

FactsLabel ==
    <<"*", "*", "K", "e", "y", " ", "f", "a", "c", "t", "s", ":", "*", "*", " ">>

QuestionsLabel ==
    <<"*", "*", "Q", "u", "e", "s", "t", "i", "o", "n", "s", ":", "*", "*", " ">>

Placeholder ==
    <<"G", "e", "n", "e", "r", "a", "l", " ", "c", "o", "n", "v", "e", "r", "s",
      "a", "t", "i", "o", "n", " ", "s", "u", "m", "m", "a", "r", "y", ".">>

\* lines 123-128: the if/elif chain puts a content in at most one bucket
Bucket(content) ==
    IF AnyIn(DecisionWords, Lower(content)) THEN "decision"
    ELSE IF Contains(content, <<"?">>) THEN "question"
    ELSE IF AnyIn(FactWords, Lower(content)) THEN "fact"
    ELSE "unused"

\* Bucket of each known content, evaluated once
BucketMemo == [c \in KnownContents |-> Bucket(c)]

BucketOf(content) ==
    IF content \in KnownContents THEN BucketMemo[content] ELSE Bucket(content)

IsDecision(content) == BucketOf(content) = "decision"

IsQuestion(content) == BucketOf(content) = "question"

IsFact(content) == BucketOf(content) = "fact"

Contents(ms) == [i \in 1..Len(ms) |-> ms[i].content]

summarize_messages(ms) ==
    LET decisions == SelectSeq(Contents(ms), IsDecision)
        facts     == SelectSeq(Contents(ms), IsFact)
        questions == SelectSeq(Contents(ms), IsQuestion)
        summary_parts ==
            (IF decisions # <<>>
             THEN <<DecisionsLabel \o Join(Take(decisions, 3), <<";", " ">>)>>
             ELSE <<>>)
            \o (IF facts # <<>>
                THEN <<FactsLabel \o Join(Take(facts, 3), <<";", " ">>)>>
                ELSE <<>>)
            \o (IF questions # <<>>
                THEN <<QuestionsLabel \o Join(Take(questions, 2), <<";", " ">>)>>
                ELSE <<>>)
        summary_text ==
            IF summary_parts # <<>> THEN Join(summary_parts, <<"\n">>)
            ELSE Placeholder
    IN  Message("system", SummaryPrefix \o summary_text,
                <<"summary", Len(ms)>>, 80, 0)

\* whether a message is the synthetic one summarize_messages builds
IsSummary(m) == m.metadata # <<>>

-----------------------------------------------------------------------------
(* optimize_context *)

\* old_filtered[:20] is what the summary is built from
SummarySourceCap == 20
\* optimized_old[:10] is what is kept beside the summary
SummaryKeepCap == 10

\* lines 170-171: msg.priority = calculate_priority(msg), in place
ScoreAll(ms) ==
    [i \in 1..Len(ms) |-> [ms[i] EXCEPT !.priority = Priority(ms[i])]]

\* RecentTier with a fault: messages[:preserve_recent], the head for the tail
RecentTierHead(ms, n) ==
    IF n > 0 THEN SubSeq(ms, 1, Min(n, Len(ms))) ELSE <<>>

\* messages[-preserve_recent:] if preserve_recent > 0 else []
RecentTier(ms, n) ==
    IF n > 0 THEN SubSeq(ms, Max(Len(ms) - n, 0) + 1, Len(ms)) ELSE <<>>

\* messages[:-preserve_recent] if preserve_recent > 0 else messages
OldTier(ms, n) ==
    IF n > 0 THEN SubSeq(ms, 1, Max(Len(ms) - n, 0)) ELSE ms

\* FilterByPriority with a fault: the filter is left out
FilterNothing(ms, minp) == ms

\* [msg for msg in old_unique if msg.priority >= min_priority]
FilterByPriority(ms, minp) ==
    LET Keep(m) == m.priority >= minp
    IN  SelectSeq(ms, Keep)

\* InsertByPriority with a fault: a message goes before the messages of its
\* own priority, which reverses ties (an unstable sort)
InsertBeforeEqual(sorted, m) ==
    LET before == {i \in 1..Len(sorted) : sorted[i].priority > m.priority}
        k      == Cardinality(before)
    IN  SubSeq(sorted, 1, k) \o <<m>> \o SubSeq(sorted, k + 1, Len(sorted))

\* list.sort(key=priority, reverse=True) is stable: a message goes after
\* every message already placed whose priority is at least its own
InsertByPriority(sorted, m) ==
    LET before == {i \in 1..Len(sorted) : sorted[i].priority >= m.priority}
        k      == Cardinality(before)
    IN  SubSeq(sorted, 1, k) \o <<m>> \o SubSeq(sorted, k + 1, Len(sorted))

RECURSIVE SortFrom(_, _, _)
SortFrom(ms, i, sorted) ==
    IF i > Len(ms) THEN sorted
    ELSE SortFrom(ms, i + 1, InsertByPriority(sorted, ms[i]))

SortByPriority(ms) == SortFrom(ms, 1, <<>>)

\* GreedySelect with a fault: continue for break, a message that does not
\* fit is skipped and the loop goes on
RECURSIVE GreedySkip(_, _, _)
GreedySkip(sorted, current_tokens, target) ==
    IF sorted = <<>> THEN <<>>
    ELSE IF current_tokens + sorted[1].tokens <= target
         THEN <<sorted[1]>>
                \o GreedySkip(Tail(sorted), current_tokens + sorted[1].tokens, target)
         ELSE GreedySkip(Tail(sorted), current_tokens, target)

\* lines 190-195: take messages in order while they fit, stop at the first
\* that does not
RECURSIVE GreedySelect(_, _, _)
GreedySelect(sorted, current_tokens, target) ==
    IF sorted = <<>> THEN <<>>
    ELSE IF current_tokens + sorted[1].tokens <= target
         THEN <<sorted[1]>>
                \o GreedySelect(Tail(sorted), current_tokens + sorted[1].tokens, target)
         ELSE <<>>

\* Fallback with a fault: the summary is tested against the recent tier's
\* tokens alone, without those of the selected messages
FallbackRecentOnly(old_tier, filtered, selected, current_tokens, target) ==
    IF old_tier # <<>> /\ Len(selected) < Len(filtered) \div 2
    THEN LET summary == summarize_messages(Take(filtered, SummarySourceCap))
         IN  IF current_tokens - SumTokens(selected) + summary.tokens <= target
             THEN <<summary>> \o Take(selected, SummaryKeepCap)
             ELSE selected
    ELSE selected

\* Fallback with a fault: <= for < in the comparison with half the filtered set
FallbackAtHalf(old_tier, filtered, selected, current_tokens, target) ==
    IF old_tier # <<>> /\ Len(selected) <= Len(filtered) \div 2
    THEN LET summary == summarize_messages(Take(filtered, SummarySourceCap))
         IN  IF current_tokens + summary.tokens <= target
             THEN <<summary>> \o Take(selected, SummaryKeepCap)
             ELSE selected
    ELSE selected

\* lines 198-201; current_tokens is the running total the loop left, the
\* recent tier's tokens plus those of every selected message
Fallback(old_tier, filtered, selected, current_tokens, target) ==
    IF old_tier # <<>> /\ Len(selected) < Len(filtered) \div 2
    THEN LET summary == summarize_messages(Take(filtered, SummarySourceCap))
         IN  IF current_tokens + summary.tokens <= target
             THEN <<summary>> \o Take(selected, SummaryKeepCap)
             ELSE selected
    ELSE selected

\* the whole function; the record holds the argument as the call leaves it
\* (scored in place), every local, and the return value
optimize_context(ms, target, n, minp) ==
    IF ms = <<>>
    THEN [ messages |-> ms, recent |-> <<>>, old |-> <<>>, old_unique |-> <<>>,
           old_filtered |-> <<>>, greedy |-> <<>>, optimized_old |-> <<>>,
           result |-> <<>> ]
    ELSE LET scored   == ScoreAll(ms)
             rec      == RecentTier(scored, n)
             old_tier == OldTier(scored, n)
             unique   == deduplicate_messages(old_tier)
             filtered == SortByPriority(FilterByPriority(unique, minp))
             selected == GreedySelect(filtered, SumTokens(rec), target)
             final    == Fallback(old_tier, filtered, selected,
                                  SumTokens(rec) + SumTokens(selected), target)
         IN  [ messages |-> scored, recent |-> rec, old |-> old_tier,
               old_unique |-> unique, old_filtered |-> filtered,
               greedy |-> selected, optimized_old |-> final,
               result |-> final \o rec ]

-----------------------------------------------------------------------------
(* Inputs built from messages *)

DedupPool ==
    { Message("user", c, <<>>, p, 0) : c \in DedupContents, p \in DedupPriorities }

-----------------------------------------------------------------------------
(* main, default mode: load, optimize, output *)

Idle ==
    /\ data = [role |-> "user", content |-> <<>>, tokens |-> 0]
    /\ msg = <<>>
    /\ score = -1
    /\ dd_in = <<>>
    /\ dd_out = <<>>

\* nothing of optimize_context: before the call and after the process ended
NoLocals ==
    /\ original = <<>>
    /\ target_tokens = 0
    /\ preserve_recent = 0
    /\ min_priority = 0
    /\ recent = <<>>
    /\ old = <<>>
    /\ old_unique = <<>>
    /\ old_filtered = <<>>
    /\ greedy = <<>>
    /\ optimized_old = <<>>
    /\ result = <<>>

NoCall ==
    /\ messages = <<>>
    /\ NoLocals
    /\ output = FALSE
    /\ exit_code = -1
    /\ stderr = "none"

Init ==
    /\ pc = "load"
    /\ NoCall
    /\ Idle

callVars == <<original, target_tokens, preserve_recent, min_priority, recent, old,
              old_unique, old_filtered, greedy, optimized_old, result>>

fnVars == <<data, msg, score, dd_in, dd_out>>

\* load_jsonl, one iteration of its loop: a well-formed line becomes a Message
LoadLine(d) ==
    /\ pc = "load"
    /\ Len(messages) < MaxMsgs
    /\ \A i \in DOMAIN messages : messages[i].content \notin LongContents
    /\ messages' = Append(messages, MessageFromData(d))
    /\ UNCHANGED <<pc, callVars, output, exit_code, stderr, fnVars>>

\* load_jsonl, one iteration of its loop on a long input file: its lines of
\* 1 token all come before its lines of 30 tokens
LoadLong(tokens) ==
    /\ pc = "load"
    /\ Len(messages) < MaxLong
    /\ \A i \in DOMAIN messages :
          /\ messages[i].content \in LongContents
          /\ messages[i].tokens > 1 => tokens > 1
    /\ messages' =
          Append(messages,
                 MessageFromData([role |-> "user",
                                  content |-> LongContent(Len(messages) + 1),
                                  tokens |-> tokens]))
    /\ UNCHANGED <<pc, callVars, output, exit_code, stderr, fnVars>>

\* lines 335-340: open() raises FileNotFoundError before any line is read and
\* json.loads raises JSONDecodeError on a malformed line; both handlers print
\* an error and call sys.exit(1).  The process has ended: its memory is gone.
LoadError(kind) ==
    /\ pc = "load"
    /\ kind = "FileNotFoundError" => messages = <<>>
    /\ pc' = "exit"
    /\ stderr' = "error"
    /\ exit_code' = 1
    /\ messages' = <<>>
    /\ UNCHANGED <<callVars, output, fnVars>>

\* lines 343-348: the file has ended and optimize_context is called; r is
\* the one value the call yields
Optimize(target, n, minp) ==
    /\ pc = "load"
    /\ \E r \in {optimize_context(messages, target, n, minp)} :
           /\ original' = messages
           /\ messages' = r.messages
           /\ recent' = r.recent
           /\ old' = r.old
           /\ old_unique' = r.old_unique
           /\ old_filtered' = r.old_filtered
           /\ greedy' = r.greedy
           /\ optimized_old' = r.optimized_old
           /\ result' = r.result
    /\ target_tokens' = target
    /\ preserve_recent' = n
    /\ min_priority' = minp
    /\ pc' = "output"
    /\ UNCHANGED <<output, exit_code, stderr, fnVars>>

\* line 357: compression = (1 - optimized_tokens / original_tokens) * 100
\* raises ZeroDivisionError when the loaded messages' tokens sum to zero
StatsRaise(ms) == SumTokens(ms) = 0

\* lines 351-367.  With --output the file is saved and the statistics are
\* computed and printed; an exception nothing catches ends the process with
\* a traceback on the error stream and status 1.  Falling off main is status
\* 0.  Either way the process has ended and its memory is gone.
Output(out) ==
    /\ pc = "output"
    /\ output' = out
    /\ IF out /\ StatsRaise(messages)
       THEN /\ stderr' = "traceback"
            /\ exit_code' = 1
       ELSE /\ stderr' = IF out THEN "statistics" ELSE "none"
            /\ exit_code' = 0
    /\ pc' = "exit"
    /\ messages' = <<>>
    /\ original' = <<>>
    /\ target_tokens' = 0
    /\ preserve_recent' = 0
    /\ min_priority' = 0
    /\ recent' = <<>>
    /\ old' = <<>>
    /\ old_unique' = <<>>
    /\ old_filtered' = <<>>
    /\ greedy' = <<>>
    /\ optimized_old' = <<>>
    /\ result' = <<>>
    /\ UNCHANGED fnVars

Next ==
    \/ \E d \in InputLines : LoadLine(d)
    \/ \E tokens \in LongTokens : LoadLong(tokens)
    \/ \E kind \in {"FileNotFoundError", "JSONDecodeError"} : LoadError(kind)
    \/ \E target \in TargetChoices, n \in PreserveChoices, minp \in MinPriorityChoices :
          Optimize(target, n, minp)
    \/ \E out \in BOOLEAN : Output(out)

Spec == Init /\ [][Next]_vars

-----------------------------------------------------------------------------
(* Message construction and calculate_priority on every short content *)

InitMessage ==
    /\ pc = "construct"
    /\ NoCall
    /\ data \in [role : Roles, content : Strings(MaxContentLen), tokens : SuppliedTokens]
    /\ msg = <<>>
    /\ score = -1
    /\ dd_in = <<>>
    /\ dd_out = <<>>

\* Message(**data): __init__ then __post_init__
Construct ==
    /\ pc = "construct"
    /\ msg' = <<MessageFromData(data)>>
    /\ pc' = "score"
    /\ UNCHANGED <<messages, callVars, output, exit_code, stderr, data, score, dd_in, dd_out>>

\* calculate_priority(msg)
Score ==
    /\ pc = "score"
    /\ score' = calculate_priority(msg[1])
    /\ pc' = "scored"
    /\ UNCHANGED <<messages, callVars, output, exit_code, stderr, data, msg, dd_in, dd_out>>

NextMessage == Construct \/ Score

SpecMessage == InitMessage /\ [][NextMessage]_vars

-----------------------------------------------------------------------------
(* deduplicate_messages on every short list of messages with given priorities *)

InitDedup ==
    /\ pc = "dedup"
    /\ NoCall
    /\ data = [role |-> "user", content |-> <<>>, tokens |-> 0]
    /\ msg = <<>>
    /\ score = -1
    /\ dd_in \in SeqsUpTo(DedupPool, MaxDedupLen)
    /\ dd_out = <<>>

Deduplicate ==
    /\ pc = "dedup"
    /\ dd_out' = deduplicate_messages(dd_in)
    /\ pc' = "deduped"
    /\ UNCHANGED <<messages, callVars, output, exit_code, stderr, data, msg, score, dd_in>>

NextDedup == Deduplicate

SpecDedup == InitDedup /\ [][NextDedup]_vars

-----------------------------------------------------------------------------
(* Properties of optimize_context, stated where the call has returned *)

Returned == pc = "output"

\* the number of messages of the result that precede the recent tier
OldPartLen == Len(result) - Min(Max(preserve_recent, 0), Len(original))

\* C1: for a non-empty input and preserve_recent = N > 0 the result ends with
\* the last min(N, len) input messages, in order, each with its role, content
\* and tokens unchanged, also when those messages alone exceed the target.
C1_RecentTierPreserved ==
    (Returned /\ original # <<>> /\ preserve_recent > 0) =>
        LET n  == Min(preserve_recent, Len(original))
            ro == Len(result) - n
            io == Len(original) - n
        IN  /\ Len(result) >= n
            /\ \A i \in 1..n :
                  /\ result[ro + i].role = original[io + i].role
                  /\ result[ro + i].content = original[io + i].content
                  /\ result[ro + i].tokens = original[io + i].tokens
                  /\ ~IsSummary(result[ro + i])

\* a call whose recent tier alone exceeds the target, with older messages
\* before it
C1_Witness ==
    /\ Returned
    /\ preserve_recent > 0
    /\ Len(original) > preserve_recent
    /\ SumTokens(SubSeq(original, Len(original) - preserve_recent + 1, Len(original)))
          > target_tokens
    /\ Len(result) >= preserve_recent

\* C2: every message of the result that precedes the recent tier, other than
\* the synthetic summary, has recomputed priority >= min_priority.
C2_OldAboveMinPriority ==
    Returned =>
        \A i \in 1..OldPartLen :
            ~IsSummary(result[i]) => Priority(result[i]) >= min_priority

\* a call whose result keeps an old message while another old message
\* scores below min_priority
C2_Witness ==
    /\ Returned
    /\ OldPartLen >= 1
    /\ ~IsSummary(result[OldPartLen])
    /\ \E i \in 1..(Len(original) - Len(recent)) :
          Priority(original[i]) < min_priority

\* C8: the greedy selection is a prefix of the sorted filtered list; every
\* prefix of it fits with the recent tier in the target, and the message that
\* follows it, when there is one, does not fit.
C8_GreedyIsPrefix ==
    Returned =>
        LET k    == Len(greedy)
            base == SumTokens(recent)
        IN  /\ k <= Len(old_filtered)
            /\ greedy = SubSeq(old_filtered, 1, k)
            /\ \A j \in 1..k :
                  base + SumTokens(SubSeq(old_filtered, 1, j)) <= target_tokens
            /\ k < Len(old_filtered) =>
                  base + SumTokens(greedy) + old_filtered[k + 1].tokens > target_tokens

\* a call where a message after the first that does not fit would have fit
C8_Witness ==
    /\ Returned
    /\ \E j \in (Len(greedy) + 2)..Len(old_filtered) :
          SumTokens(recent) + SumTokens(greedy) + old_filtered[j].tokens
             <= target_tokens

\* C9: with non-negative token counts, a recent tier that fits the target
\* gives a result that fits the target, and a recent tier that exceeds the
\* target gives exactly the recent tier.
C9_Budget ==
    (Returned /\ \A i \in DOMAIN original : original[i].tokens >= 0) =>
        IF SumTokens(recent) <= target_tokens
        THEN SumTokens(result) <= target_tokens
        ELSE result = recent

\* a call whose result holds the summary and, after it, messages with tokens
C9_Witness ==
    /\ Returned
    /\ Len(result) >= 2
    /\ IsSummary(result[1])
    /\ SumTokens(Tail(result)) > 0

\* the position in the old tier at which a fingerprint first appears
FirstAppearance(shash) ==
    CHOOSE i \in DOMAIN old :
        /\ Fingerprint(old[i].content) = shash
        /\ \A j \in 1..(i - 1) : Fingerprint(old[j].content) # shash

\* C10: the old messages of the result other than the summary are in
\* non-increasing priority order, those of equal priority in the order their
\* fingerprints first appeared in the input; the summary, when present, is
\* first; and every old message precedes the recent tier.
C10_ResultOrder ==
    Returned =>
        /\ \A i \in 1..OldPartLen : \A j \in (i + 1)..OldPartLen :
              (~IsSummary(result[i]) /\ ~IsSummary(result[j])) =>
                  /\ result[i].priority >= result[j].priority
                  /\ result[i].priority = result[j].priority =>
                        FirstAppearance(Fingerprint(result[i].content))
                           < FirstAppearance(Fingerprint(result[j].content))
        /\ \A i \in 1..Len(result) : IsSummary(result[i]) => i = 1
        /\ \A i \in 1..OldPartLen :
              ~IsSummary(result[i]) => \E j \in DOMAIN old : old[j] = result[i]
        /\ SubSeq(result, OldPartLen + 1, Len(result))
              = SubSeq(messages, Len(messages) - (Len(result) - OldPartLen) + 1,
                       Len(messages))

\* a call whose result holds two old messages of equal priority and different
\* fingerprints, before a recent tier
C10_Witness ==
    /\ Returned
    /\ recent # <<>>
    /\ \E i \in 1..OldPartLen : \E j \in (i + 1)..OldPartLen :
          /\ ~IsSummary(result[i])
          /\ result[i].priority = result[j].priority
          /\ Fingerprint(result[i].content) # Fingerprint(result[j].content)

\* the summary the fallback builds for the call that has returned
SummaryOfCall == summarize_messages(Take(old_filtered, SummarySourceCap))

\* what the fallback rule gives when the summary is tested against `spent`
FallbackRule(spent) ==
    IF /\ old # <<>>
       /\ Len(greedy) < Len(old_filtered) \div 2
       /\ spent + SummaryOfCall.tokens <= target_tokens
    THEN <<SummaryOfCall>> \o Take(greedy, Min(SummaryKeepCap, Len(greedy)))
    ELSE greedy

\* C7 as stated: the summary is tested against the recent tier's tokens plus
\* the summary's own.
C7_Original ==
    Returned => SubSeq(result, 1, OldPartLen) = FallbackRule(SumTokens(recent))

\* C7 as amended: the summary is tested against the running total the
\* greedy loop left, the recent tier's tokens plus those of every greedily
\* selected message, plus the summary's own tokens.
C7_FallbackRule ==
    Returned =>
        SubSeq(result, 1, OldPartLen)
           = FallbackRule(SumTokens(recent) + SumTokens(greedy))

\* a call where the fallback fired with more than 10 messages greedily
\* selected, of which the result keeps the first 10 after the summary
C7_Witness ==
    /\ Returned
    /\ Len(greedy) > SummaryKeepCap
    /\ Len(greedy) < Len(old_filtered) \div 2
    /\ IsSummary(result[1])
    /\ OldPartLen = SummaryKeepCap + 1

-----------------------------------------------------------------------------
(* Properties of main *)

\* C5: the default command exits with status 1 and an error message when the
\* file is missing or a line is malformed, and with status 0 for every other
\* input.
C5_ExitCodes ==
    pc = "exit" => IF stderr = "error" THEN exit_code = 1 ELSE exit_code = 0

-----------------------------------------------------------------------------
(* Properties of Message construction and calculate_priority *)

Constructed == pc \in {"score", "scored"}

\* a content of two words or more: whitespace between two other characters
TwoWords(content) ==
    \E i \in DOMAIN content : \E j \in DOMAIN content : \E k \in DOMAIN content :
        /\ i < j
        /\ j < k
        /\ ~IsSpace(content[i])
        /\ IsSpace(content[j])
        /\ ~IsSpace(content[k])

\* C3 as stated: a Message constructed without a token count and with
\* non-empty content has tokens # 0.
C3_Original ==
    (Constructed /\ data.tokens = 0 /\ data.content # <<>>) => msg[1].tokens # 0

\* C3 as amended: a Message constructed without a token count has tokens # 0
\* exactly when its content has at least 4 characters or at least 2 words;
\* a shorter content of one word or of whitespace alone has tokens = 0.
C3_TokensNonZero ==
    (Constructed /\ data.tokens = 0) =>
        (msg[1].tokens # 0 <=> (Len(data.content) >= 4 \/ TwoWords(data.content)))

\* a constructed Message of fewer than 4 characters whose computed tokens are
\* not zero
C3_Witness ==
    /\ Constructed
    /\ data.tokens = 0
    /\ Len(data.content) < 4
    /\ msg[1].tokens # 0

\* C6: the -2.5 adjustment is applied exactly when the content, trimmed and
\* lowercased, is one of the short acknowledgments.
C6_AckAfterTrim ==
    pc = "scored" =>
        (AckAdjustment(msg[1]) = -25 <=> Lower(Strip(data.content)) \in ShortAcks)

-----------------------------------------------------------------------------
(* Properties of deduplicate_messages *)

\* the positions of the argument at which a fingerprint appears first
FirstPositions ==
    {i \in DOMAIN dd_in :
        \A j \in 1..(i - 1) :
            Fingerprint(dd_in[j].content) # Fingerprint(dd_in[i].content)}

\* the k-th smallest element of a set of numbers
KthOf(S, k) == CHOOSE i \in S : Cardinality({j \in S : j < i}) = k - 1

\* the positions of the messages that share the fingerprint of position i
GroupPositions(i) ==
    {j \in DOMAIN dd_in :
        Fingerprint(dd_in[j].content) = Fingerprint(dd_in[i].content)}

\* C4: the return value holds one message for each distinct fingerprint, in
\* the order the fingerprints first appear; each is the first message of its
\* group among those of the group's maximum priority.
C4_Deduplicate ==
    pc = "deduped" =>
        /\ Len(dd_out) = Cardinality(FirstPositions)
        /\ \A k \in 1..Len(dd_out) :
              LET g == GroupPositions(KthOf(FirstPositions, k))
                  b == CHOOSE i \in g :
                          /\ \A j \in g : dd_in[j].priority <= dd_in[i].priority
                          /\ \A j \in g :
                                dd_in[j].priority = dd_in[i].priority => i <= j
              IN  dd_out[k] = dd_in[b]

\* a call on two groups, one of which holds two different messages that tie
\* on the group's maximum priority
C4_Witness ==
    /\ pc = "deduped"
    /\ Len(dd_out) >= 2
    /\ \E i \in DOMAIN dd_in : \E j \in DOMAIN dd_in :
          /\ i < j
          /\ j \in GroupPositions(i)
          /\ dd_in[i] # dd_in[j]
          /\ dd_in[i].priority = dd_in[j].priority
          /\ \A k \in GroupPositions(i) : dd_in[k].priority <= dd_in[i].priority

====
